---- MODULE Spec2Model ----
(***************************************************************************)
(* Progress tracking of the debate crew (src/debate_room).                 *)
(*                                                                         *)
(*   - ProgressState / EventDrivenProgressTracker: the lock-guarded record *)
(*     written by the five event handlers on the crew's worker thread and  *)
(*     read by the observer through get_state().                           *)
(*   - DebateProgressTracker: progress inferred from the output files.     *)
(*                                                                         *)
(* A Python str is a sequence of one-character strings, so that lower(),   *)
(* replace(), the "in" test and f-string concatenation are computed.       *)
(* A float produced by a division a / b is kept as the pair <<a, b>>.      *)
(* Every "with self.lock:" block is one atomic step.                       *)
(***************************************************************************)
EXTENDS Integers, Sequences, FiniteSets, TLC

(***************************************************************************)
(* Python str operations                                                   *)
(***************************************************************************)
UpperCase == <<"A","B","C","D","E","F","G","H","I","J","K","L","M","N","O","P","Q","R","S","T","U","V","W","X","Y","Z">>
LowerCase == <<"a","b","c","d","e","f","g","h","i","j","k","l","m","n","o","p","q","r","s","t","u","v","w","x","y","z">>

\* str.lower() on one character
lower_char(c) ==
    IF \E i \in 1..Len(UpperCase) : UpperCase[i] = c
    THEN LowerCase[CHOOSE i \in 1..Len(UpperCase) : UpperCase[i] = c]
    ELSE c

\* str.lower()
lower(s) == [i \in 1..Len(s) |-> lower_char(s[i])]

\* str.replace(old, new) for a one-character old and new
replace(s, old, new) == [i \in 1..Len(s) |-> IF s[i] = old THEN new ELSE s[i]]

\* Python's  sub in s  on str
contains(sub, s) ==
    \E i \in 0..(Len(s) - Len(sub)) : SubSeq(s, i + 1, i + Len(sub)) = sub

\* a / b as a float, kept exact
Ratio(a, b) == <<a, b>>

\* x <= y on two such floats (denominators are positive)
RatioLE(x, y) == x[1] * y[2] <= y[1] * x[2]

\* x == y on two such floats
RatioEQ(x, y) == x[1] * y[2] = y[1] * x[2]

(***************************************************************************)
(* EventDrivenProgressTracker.TASK_INFO, in dict (insertion) order         *)
(***************************************************************************)
N == 6

TASK_INFO == <<
    [key |-> <<"p","r","o","p","o","s","e","_","o","p","e","n","i","n","g">>, index |-> 0,
     desc |-> <<"P","r","o","p","o","s","i","t","i","o","n"," ","o","p","e","n","i","n","g"," ","s","t","a","t","e","m","e","n","t">>],
    [key |-> <<"o","p","p","o","s","e","_","o","p","e","n","i","n","g">>, index |-> 1,
     desc |-> <<"O","p","p","o","s","i","t","i","o","n"," ","o","p","e","n","i","n","g"," ","s","t","a","t","e","m","e","n","t">>],
    [key |-> <<"c","o","l","l","e","c","t","_","o","p","e","n","i","n","g","s">>, index |-> 2,
     desc |-> <<"C","o","l","l","e","c","t","i","n","g"," ","o","p","e","n","i","n","g"," ","s","t","a","t","e","m","e","n","t","s">>],
    [key |-> <<"p","r","o","p","o","s","e","_","r","e","b","u","t","t","a","l">>, index |-> 3,
     desc |-> <<"P","r","o","p","o","s","i","t","i","o","n"," ","r","e","b","u","t","t","a","l">>],
    [key |-> <<"o","p","p","o","s","e","_","r","e","b","u","t","t","a","l">>, index |-> 4,
     desc |-> <<"O","p","p","o","s","i","t","i","o","n"," ","r","e","b","u","t","t","a","l">>],
    [key |-> <<"d","e","c","i","d","e">>, index |-> 5,
     desc |-> <<"J","u","d","g","e","'","s"," ","d","e","c","i","s","i","o","n">>] >>

\* the registry keys: the names the crew gives its tasks (crew.py)
TaskKeys == {TASK_INFO[i].key : i \in 1..Len(TASK_INFO)}

\* an event is a record holding the attributes it has; an attribute that is
\* None or "" is the empty sequence (both are falsy)
_get_task_name_from_event(event) ==
    IF "task_name" \in DOMAIN event /\ event.task_name # <<>>
    THEN event.task_name
    ELSE IF /\ "task" \in DOMAIN event
            /\ "name" \in DOMAIN event.task
            /\ event.task.name # <<>>
         THEN event.task.name
         ELSE <<"u","n","k","n","o","w","n">>

\* getattr(event, "error", "Unknown error")
event_error(event) ==
    IF "error" \in DOMAIN event THEN event.error ELSE <<"U","n","k","n","o","w","n"," ","e","r","r","o","r">>

(***************************************************************************)
(* The events the bus can deliver                                          *)
(***************************************************************************)
\* task names beside the registry keys: other casing and punctuation, and a
\* name that matches no key
OtherTaskNames == {<<"O","p","p","o","s","e"," ","R","e","b","u","t","t","a","l">>, <<"p","r","o","p","o","s","e","-","o","p","e","n","i","n","g">>, <<"s","u","m","m","a","r","i","z","e">>}

TaskNames == TaskKeys \cup OtherTaskNames

Errors == {<<"t","i","m","e","o","u","t">>}

\* the name on the event, on its task object, or nowhere
TaskEvents ==
    {[task_name |-> n] : n \in TaskNames}
    \cup {[task_name |-> <<>>, task |-> [name |-> <<"d","e","c","i","d","e">>]]}
    \cup {[task_name |-> <<>>, task |-> [name |-> <<>>]]}

TaskFailedEvents ==
    TaskEvents \cup {[task_name |-> n, error |-> e] : n \in TaskNames, e \in Errors}

CrewFailedEvents == {[crew_name |-> <<"c","r","e","w">>]} \cup
                    {[crew_name |-> <<"c","r","e","w">>, error |-> e] : e \in Errors}

\* str.upper() on one character, and on a str
upper_char(c) ==
    IF \E i \in 1..Len(LowerCase) : LowerCase[i] = c
    THEN UpperCase[CHOOSE i \in 1..Len(LowerCase) : LowerCase[i] = c]
    ELSE c

upper(s) == [i \in 1..Len(s) |-> upper_char(s[i])]

\* a registry key as the engine may spell it: in another letter case, with
\* spaces or with hyphens for the underscores
KeyVariants(key) ==
    {key, upper(key), replace(key, "_", " "), replace(key, "_", "-"),
     upper(replace(key, "_", " ")), upper(replace(key, "_", "-"))}

\* names that are part of several keys
SharedNames == {<<"o","p","e","n","i","n","g">>, <<"r","e","b","u","t","t","a","l">>, <<"p","r","o","p","o","s","e">>, <<"o","p","p","o","s","e">>, <<"O","p","e","n","i","n","g">>}

ResolutionNames == UNION {KeyVariants(key) : key \in TaskKeys} \cup SharedNames

\* _get_task_info keeping the last entry that matches
first_match_keeping_last(task_name) ==
    LET normalized_name == replace(replace(lower(task_name), " ", "_"), "-", "_")
        hits == {i \in 1..Len(TASK_INFO) :
                    \/ contains(TASK_INFO[i].key, normalized_name)
                    \/ contains(normalized_name, TASK_INFO[i].key)}
    IN  IF hits = {}
        THEN <<-1, task_name>>
        ELSE LET last == CHOOSE i \in hits : \A j \in hits : i >= j
             IN  <<TASK_INFO[last].index, TASK_INFO[last].desc>>

first_match_fallback_zero(task_name) ==
    LET normalized_name == replace(replace(lower(task_name), " ", "_"), "-", "_")
        hits == {i \in 1..Len(TASK_INFO) :
                    \/ contains(TASK_INFO[i].key, normalized_name)
                    \/ contains(normalized_name, TASK_INFO[i].key)}
    IN  IF hits = {}
        THEN <<0, task_name>>
        ELSE LET first == CHOOSE i \in hits : \A j \in hits : i <= j
             IN  <<TASK_INFO[first].index, TASK_INFO[first].desc>>

\* the body of _get_task_info: <<index, description>> of the first entry, in
\* dict order, whose key contains the normalized name or is contained in it
first_match(task_name) ==
    LET normalized_name == replace(replace(lower(task_name), " ", "_"), "-", "_")
        hits == {i \in 1..Len(TASK_INFO) :
                    \/ contains(TASK_INFO[i].key, normalized_name)
                    \/ contains(normalized_name, TASK_INFO[i].key)}
    IN  IF hits = {}
        THEN <<-1, task_name>>
        ELSE LET first == CHOOSE i \in hits : \A j \in hits : i <= j
             IN  <<TASK_INFO[first].index, TASK_INFO[first].desc>>

\* every name _get_task_name_from_event can hand to _get_task_info
EventTaskNames ==
    {_get_task_name_from_event(event) : event \in TaskFailedEvents}
    \cup ResolutionNames

\* _get_task_info, computed once for each name
TaskInfoOf == [task_name \in EventTaskNames |-> first_match(task_name)]

_get_task_info(task_name) == TaskInfoOf[task_name]

(***************************************************************************)
(* State                                                                   *)
(***************************************************************************)
VARIABLES
    \* ProgressState
    current_task_index, current_status, is_complete, has_error, error_message,
    \* EventDrivenProgressTracker.progress_callback is set, and the arguments
    \* of its last call (<<>> before the first)
    progress_callback, callback_args,
    \* history of the notifications delivered to this tracker
    last_event,          \* [kind, name] of the last one
    crew_completed_seen, \* a run-completed notification was delivered
    failed_first,        \* a run-failed one was, before any run-completed
    unrecognised_seen    \* an earlier one carried a name matching no key

stateVars == <<current_task_index, current_status, is_complete, has_error,
               error_message>>
callbackVars == <<progress_callback, callback_args>>
historyVars == <<last_event, crew_completed_seen, failed_first,
                 unrecognised_seen>>

(***************************************************************************)
(* State of one run (the crew and the observer) and of the polling tracker *)
(***************************************************************************)
VARIABLES
    \* the crew: stage notifications emitted so far, in the order start(0),
    \* complete(0), start(1), ...; "running", "completed" or "failed"; and
    \* the task-failed notifications emitted
    crew_step, crew_state, failures,
    \* the observer inside get_state(): "idle", or "read_error" between its
    \* two lock acquisitions, holding get_progress()'s result
    obs_pc, obs_progress,
    \* the tuple get_state() returned last (<<>> before the first)
    ret,
    \* history: every tuple of values the record has held, the notifications
    \* delivered, and that count when the running get_state() began and when
    \* the last one began and ended
    held, delivered, obs_at, ret_at

crewVars == <<crew_step, crew_state, failures>>
obsVars == <<obs_pc, obs_progress, ret>>
runHistoryVars == <<held, delivered, obs_at, ret_at>>

VARIABLES
    \* the filesystem: output_dir exists, and for each file name of
    \* OUTPUT_FILES whether output_dir / name exists and its st_size
    dir_exists, files,
    \* get_completed_tasks(): "idle", or inside the loop before
    \* filepath.exists() ("exists") or before filepath.stat() ("stat") of
    \* the file at position poll_i; the list built so far
    poll_pc, poll_i, completed,
    \* how the last call ended: "none", "returned" or "raised"
    poll_outcome,
    \* clear_output_dir(): "idle", before filepath.exists() ("exists") or
    \* filepath.unlink() ("unlink") of the file at clear_i, or "raised"
    clear_pc, clear_i,
    \* history: no file changed since the last get_completed_tasks() began,
    \* and none either since the call before it began, which returned; the
    \* length of the list the last call returned
    poll_stable, repeated, prev_count,
    \* the changes of the files so far that this tracker did not make
    fs_changes

fsVars == <<dir_exists, files>>
pollVars == <<poll_pc, poll_i, completed, poll_outcome>>
clearVars == <<clear_pc, clear_i>>
pollHistoryVars == <<poll_stable, repeated, prev_count>>
pollingVars == <<fsVars, fs_changes, pollVars, clearVars, pollHistoryVars>>

VARIABLES
    \* get_progress() of the polling tracker: the pair it returned last (<<>>
    \* before the first call and while a call runs)
    gp_ret,
    \* history: "yes" when clear_output_dir() has returned and no file was
    \* created or written since it began, "polled" when get_progress() was
    \* called after that and still none was, "running" when
    \* clear_output_dir() runs and none was, "no" otherwise
    fresh_reset,
    \* history: the last clear_output_dir() has unlinked a file
    reset_unlinked,
    \* monitor_progress(): "none" (not iterated), "get_progress" (inside the
    \* call of line 227), "yielded" (suspended at the yield), "sleep",
    \* "closed" (the loop was left) or "raised"; and its local last_progress
    mon_pc, last_progress

resetHistoryVars == <<fresh_reset, reset_unlinked>>
monitorVars == <<mon_pc, last_progress>>
progressVars == <<gp_ret, resetHistoryVars, monitorVars>>

VARIABLES
    \* run_crew() on the worker thread: "not_started", "scope" (before the
    \* with statement), "register", "kickoff", "hung" (kickoff never
    \* returns), "exit_scope", "except", "finally" or "finished"
    worker_pc,
    \* the exception the with block has raised, "None" if none
    raised,
    \* crew_result[0] is set, crew_error[0] ("None" if unset), crew_done
    crew_result, crew_error, crew_done,
    \* run_debate_with_progress after the tracker is constructed:
    \* "start", "while", "get_state", "get_state_error", "join",
    \* "check_error", "final_state", "final_state_error" or "returned"
    observer_pc,
    \* its local last_status, and the kind of message it returned ("none",
    \* "error", "warnings" or "success")
    last_status, run_result,
    \* the shared crewai_event_bus: the trackers whose handlers are registered
    bus_handlers,
    \* the handlers the with statement of this run set aside
    saved_handlers,
    \* the next request, served after this one has returned: where its
    \* run_crew() is, the notifications its crew has emitted, the handlers
    \* its with statement set aside and the record of its tracker
    later_pc, later_step, later_saved, later_state

workerVars == <<worker_pc, raised, crew_result, crew_error, crew_done>>
observerVars == <<observer_pc, last_status, run_result>>
busVars == <<bus_handlers, saved_handlers>>
laterVars == <<later_pc, later_step, later_saved, later_state>>
appVars == <<workerVars, observerVars, busVars, laterVars>>

runVars == <<crewVars, obsVars, runHistoryVars>>
trackerVars == <<stateVars, callbackVars, historyVars, runVars>>
vars == <<trackerVars, pollingVars, progressVars, appVars>>


(***************************************************************************)
(* ProgressState                                                           *)
(***************************************************************************)
\* update() losing the error flag on a call that passes no error
update_clearing_error(args) ==
    /\ current_task_index' =
         IF "task_index" \in DOMAIN args THEN args.task_index
         ELSE current_task_index
    /\ current_status' =
         IF "status" \in DOMAIN args THEN args.status ELSE current_status
    /\ is_complete' =
         IF "complete" \in DOMAIN args THEN args.complete ELSE is_complete
    /\ has_error' = ("error" \in DOMAIN args)
    /\ error_message' =
         IF "error" \in DOMAIN args THEN args.error ELSE error_message

\* update(): args holds the keyword arguments that are not None
update(args) ==
    /\ current_task_index' =
         IF "task_index" \in DOMAIN args THEN args.task_index
         ELSE current_task_index
    /\ current_status' =
         IF "status" \in DOMAIN args THEN args.status ELSE current_status
    /\ is_complete' =
         IF "complete" \in DOMAIN args THEN args.complete ELSE is_complete
    /\ has_error' = IF "error" \in DOMAIN args THEN TRUE ELSE has_error
    /\ error_message' =
         IF "error" \in DOMAIN args THEN args.error ELSE error_message

\* get_progress() reporting a percentage, as DebateProgressTracker does
get_progress_as_percentage(task_index, status) ==
    <<Ratio(task_index * 100, 6), status>>

\* get_progress() on the record's values at one instant
get_progress(task_index, status) == <<Ratio(task_index, 6), status>>

(***************************************************************************)
(* EventDrivenProgressTracker: the handlers                                *)
(*                                                                         *)
(* A handler runs on the one thread that delivers notifications, so        *)
(* between its update() and the get_progress() of its callback branch no   *)
(* other write happens: the callback receives the values just written.     *)
(***************************************************************************)
\* if self.progress_callback: self.progress_callback(*self.state.get_progress())
call_back_with_progress ==
    /\ progress_callback' = progress_callback
    /\ callback_args' =
         IF progress_callback
         THEN get_progress(current_task_index', current_status')
         ELSE callback_args

_on_task_started_off_by_one(event) ==
    LET task_name == _get_task_name_from_event(event)
        info == _get_task_info(task_name)
        status == <<"S","t","a","r","t","i","n","g",":"," ">> \o info[2]
    IN  /\ update([task_index |-> info[1] + 1, status |-> status])
        /\ call_back_with_progress

_on_task_started(event) ==
    LET task_name == _get_task_name_from_event(event)
        info == _get_task_info(task_name)
        status == <<"S","t","a","r","t","i","n","g",":"," ">> \o info[2]
    IN  /\ update([task_index |-> info[1], status |-> status])
        /\ call_back_with_progress

_on_task_completed_inferring_complete(event) ==
    LET task_name == _get_task_name_from_event(event)
        info == _get_task_info(task_name)
        status == <<"C","o","m","p","l","e","t","e","d",":"," ">> \o info[2]
    IN  /\ update([task_index |-> info[1] + 1, status |-> status,
                   complete |-> (info[1] + 1 = 6)])
        /\ call_back_with_progress

_on_task_completed(event) ==
    LET task_name == _get_task_name_from_event(event)
        info == _get_task_info(task_name)
        status == <<"C","o","m","p","l","e","t","e","d",":"," ">> \o info[2]
    IN  /\ update([task_index |-> info[1] + 1, status |-> status])
        /\ call_back_with_progress

\* _on_task_failed writing a status as the other handlers do
_on_task_failed_writing_status(event) ==
    LET task_name == _get_task_name_from_event(event)
        error_msg == event_error(event)
    IN  /\ update([status |-> <<"F","a","i","l","e","d",":"," ">> \o task_name,
                   error |-> <<"T","a","s","k"," ","'">> \o task_name \o <<"'"," ","f","a","i","l","e","d",":"," ">> \o error_msg])
        /\ UNCHANGED callbackVars

_on_task_failed(event) ==
    LET task_name == _get_task_name_from_event(event)
        error_msg == event_error(event)
    IN  /\ update([error |-> <<"T","a","s","k"," ","'">> \o task_name \o <<"'"," ","f","a","i","l","e","d",":"," ">> \o error_msg])
        /\ UNCHANGED callbackVars

_on_crew_completed(event) ==
    /\ update([task_index |-> 6, status |-> <<"D","e","b","a","t","e"," ","c","o","m","p","l","e","t","e","!">>, complete |-> TRUE])
    /\ progress_callback' = progress_callback
    /\ callback_args' =
         IF progress_callback
         THEN <<Ratio(1, 1), <<"D","e","b","a","t","e"," ","c","o","m","p","l","e","t","e","!">>>>
         ELSE callback_args

_on_crew_failed(event) ==
    LET error_msg == event_error(event)
    IN  /\ update([error |-> <<"D","e","b","a","t","e"," ","f","a","i","l","e","d",":"," ">> \o error_msg])
        /\ UNCHANGED callbackVars

(***************************************************************************)
(* History of the delivered notifications                                  *)
(***************************************************************************)
Recognised(name) == _get_task_info(name)[1] # -1

Record(kind, name) ==
    /\ last_event' = [kind |-> kind, name |-> name]
    /\ unrecognised_seen' =
         (unrecognised_seen \/
            (last_event.kind \in {"task_started", "task_completed", "task_failed"}
               /\ ~Recognised(last_event.name)))
    /\ crew_completed_seen' = (crew_completed_seen \/ kind = "crew_completed")
    /\ failed_first' =
         (failed_first \/ (kind = "crew_failed" /\ ~crew_completed_seen))

(***************************************************************************)
(* One run: the crew on the worker thread, the observer polling get_state  *)
(***************************************************************************)
\* crew.py: the tasks, run by Process.sequential in the order they are defined
CrewTasks == << <<"p","r","o","p","o","s","e","_","o","p","e","n","i","n","g">>, <<"o","p","p","o","s","e","_","o","p","e","n","i","n","g">>, <<"c","o","l","l","e","c","t","_","o","p","e","n","i","n","g","s">>,
                <<"p","r","o","p","o","s","e","_","r","e","b","u","t","t","a","l">>, <<"o","p","p","o","s","e","_","r","e","b","u","t","t","a","l">>, <<"d","e","c","i","d","e">> >>

\* task-failed notifications of one run
MaxFailures == 1

\* the record's values as get_state() presents them
Snapshot(task_index, status, error_flag, message) ==
    get_progress(task_index, status) \o <<error_flag, message>>

\* get_state(), first lock acquisition: self.state.get_progress()
GetStateProgress ==
    /\ obs_pc = "idle"
    /\ obs_progress' = get_progress(current_task_index, current_status)
    /\ obs_pc' = "read_error"
    /\ obs_at' = delivered
    /\ UNCHANGED <<ret, ret_at>>
    /\ UNCHANGED <<stateVars, callbackVars, historyVars, crewVars, held,
                   delivered, pollingVars,
                   progressVars, appVars>>

\* get_state(), second lock acquisition: has_error and error_message
GetStateReturn ==
    /\ obs_pc = "read_error"
    /\ ret' = <<obs_progress[1], obs_progress[2], has_error, error_message>>
    /\ ret_at' = [began |-> obs_at, ended |-> delivered]
    /\ obs_pc' = "idle"
    /\ obs_progress' = <<>>
    /\ obs_at' = 0
    /\ UNCHANGED <<stateVars, callbackVars, historyVars, crewVars, held,
                   delivered, pollingVars,
                   progressVars, appVars>>

\* one more notification was handled: the record holds new values; the
\* observer is not moved
Handled ==
    /\ delivered' = delivered + 1
    /\ UNCHANGED <<obsVars, obs_at, ret_at, pollingVars,
                   progressVars, appVars>>
    /\ held' = held \cup {Snapshot(current_task_index', current_status',
                                   has_error', error_message')}

CrewTaskStarted ==
    /\ crew_state = "running"
    /\ crew_step < 2 * Len(CrewTasks)
    /\ crew_step % 2 = 0
    /\ LET name == CrewTasks[(crew_step \div 2) + 1]
       IN  /\ _on_task_started([task_name |-> name])
           /\ Record("task_started", name)
    /\ crew_step' = crew_step + 1
    /\ UNCHANGED <<crew_state, failures>>
    /\ Handled

CrewTaskCompleted ==
    /\ crew_state = "running"
    /\ crew_step % 2 = 1
    /\ LET name == CrewTasks[(crew_step \div 2) + 1]
       IN  /\ _on_task_completed([task_name |-> name])
           /\ Record("task_completed", name)
    /\ crew_step' = crew_step + 1
    /\ UNCHANGED <<crew_state, failures>>
    /\ Handled

\* the task that is running fails
CrewTaskFailed ==
    /\ crew_state = "running"
    /\ crew_step % 2 = 1
    /\ failures < MaxFailures
    /\ \E e \in Errors :
         LET name == CrewTasks[(crew_step \div 2) + 1]
         IN  /\ _on_task_failed([task_name |-> name, error |-> e])
             /\ Record("task_failed", name)
    /\ failures' = failures + 1
    /\ UNCHANGED <<crew_step, crew_state>>
    /\ Handled

CrewKickoffCompleted ==
    /\ crew_state = "running"
    /\ _on_crew_completed([crew_name |-> <<"c","r","e","w">>])
    /\ Record("crew_completed", <<>>)
    /\ crew_state' = "completed"
    /\ UNCHANGED <<crew_step, failures>>
    /\ Handled

CrewKickoffFailed ==
    /\ crew_state = "running"
    /\ \E event \in CrewFailedEvents :
         /\ _on_crew_failed(event)
         /\ Record("crew_failed", <<>>)
    /\ crew_state' = "failed"
    /\ UNCHANGED <<crew_step, failures>>
    /\ Handled

(***************************************************************************)
(* DebateProgressTracker: progress read from the output files              *)
(***************************************************************************)
\* OUTPUT_FILES, in dict (insertion) order
OUTPUT_FILES == <<
    [name |-> <<"0","1","_","p","r","o","p","o","s","e","_","o","p","e","n","i","n","g",".","m","d">>, desc |-> <<"P","r","o","p","o","s","i","t","i","o","n"," ","o","p","e","n","i","n","g"," ","s","t","a","t","e","m","e","n","t">>],
    [name |-> <<"0","2","_","o","p","p","o","s","e","_","o","p","e","n","i","n","g",".","m","d">>, desc |-> <<"O","p","p","o","s","i","t","i","o","n"," ","o","p","e","n","i","n","g"," ","s","t","a","t","e","m","e","n","t">>],
    [name |-> <<"0","3","_","o","p","e","n","i","n","g","s","_","c","o","l","l","e","c","t","e","d",".","m","d">>, desc |-> <<"C","o","l","l","e","c","t","i","n","g"," ","o","p","e","n","i","n","g","s">>],
    [name |-> <<"0","4","_","p","r","o","p","o","s","e","_","r","e","b","u","t","t","a","l",".","m","d">>, desc |-> <<"P","r","o","p","o","s","i","t","i","o","n"," ","r","e","b","u","t","t","a","l">>],
    [name |-> <<"0","5","_","o","p","p","o","s","e","_","r","e","b","u","t","t","a","l",".","m","d">>, desc |-> <<"O","p","p","o","s","i","t","i","o","n"," ","r","e","b","u","t","t","a","l">>],
    [name |-> <<"0","6","_","d","e","c","i","d","e",".","m","d">>, desc |-> <<"J","u","d","g","e","'","s"," ","d","e","c","i","s","i","o","n">>] >>

\* self.total_tasks = len(self.OUTPUT_FILES)
total_tasks == Len(OUTPUT_FILES)

FileNames == {OUTPUT_FILES[i].name : i \in 1..Len(OUTPUT_FILES)}

\* the largest st_size a file takes
MaxFileSize == 1

\* changes of the files by the crew and by other runs
MaxFsChanges == 1

\* Path.exists() of output_dir / name
path_exists(name) == dir_exists /\ files[name].exists

\* filepath.stat() of a loop that stops at the first empty file
scan_stat_prefix_only ==
    /\ poll_pc = "stat"
    /\ LET name == OUTPUT_FILES[poll_i].name
       IN  IF ~path_exists(name)
           THEN /\ poll_pc' = "idle"
                /\ poll_outcome' = "raised"
                /\ completed' = <<>>
                /\ poll_i' = 1
           ELSE /\ completed' = IF files[name].size > 0
                                THEN Append(completed, name)
                                ELSE completed
                /\ poll_i' = IF files[name].size > 0
                             THEN poll_i + 1
                             ELSE Len(OUTPUT_FILES) + 1
                /\ poll_pc' = "exists"
                /\ poll_outcome' = poll_outcome

\* get_completed_tasks(): completed = []
get_completed_tasks_begin ==
    /\ poll_pc = "idle"
    /\ completed' = <<>>
    /\ poll_i' = 1
    /\ poll_pc' = "exists"
    /\ poll_outcome' = "none"

\* the loop head and filepath.exists(): a missing file is skipped
scan_exists ==
    /\ poll_pc = "exists"
    /\ poll_i <= Len(OUTPUT_FILES)
    /\ IF path_exists(OUTPUT_FILES[poll_i].name)
       THEN poll_pc' = "stat" /\ poll_i' = poll_i
       ELSE poll_pc' = "exists" /\ poll_i' = poll_i + 1
    /\ UNCHANGED <<completed, poll_outcome>>

\* filepath.stat().st_size > 0, which raises FileNotFoundError when the
\* file is gone since exists()
scan_stat ==
    /\ poll_pc = "stat"
    /\ LET name == OUTPUT_FILES[poll_i].name
       IN  IF ~path_exists(name)
           THEN /\ poll_pc' = "idle"
                /\ poll_outcome' = "raised"
                /\ completed' = <<>>
                /\ poll_i' = 1
           ELSE /\ completed' = IF files[name].size > 0
                                THEN Append(completed, name)
                                ELSE completed
                /\ poll_i' = poll_i + 1
                /\ poll_pc' = "exists"
                /\ poll_outcome' = poll_outcome

\* return completed: the list goes to the caller and the frame is gone
get_completed_tasks_return ==
    /\ poll_pc = "exists"
    /\ poll_i > Len(OUTPUT_FILES)
    /\ poll_pc' = "idle"
    /\ poll_outcome' = "returned"
    /\ completed' = <<>>
    /\ poll_i' = 1

\* clear_output_dir(): if self.output_dir.exists()
clear_output_dir_begin ==
    /\ clear_pc \in {"idle", "raised"}
    /\ IF dir_exists
       THEN clear_pc' = "exists" /\ clear_i' = 1
       ELSE clear_pc' = "idle" /\ clear_i' = clear_i

\* clear_output_dir() whose loop leaves out the last file
clear_exists_leaving_last ==
    /\ clear_pc = "exists"
    /\ IF clear_i > Len(OUTPUT_FILES) - 1
       THEN clear_pc' = "idle" /\ clear_i' = clear_i
       ELSE IF path_exists(OUTPUT_FILES[clear_i].name)
            THEN clear_pc' = "unlink" /\ clear_i' = clear_i
            ELSE clear_pc' = "exists" /\ clear_i' = clear_i + 1

\* the loop head and filepath.exists(); past the last file the call returns
clear_exists ==
    /\ clear_pc = "exists"
    /\ IF clear_i > Len(OUTPUT_FILES)
       THEN clear_pc' = "idle" /\ clear_i' = clear_i
       ELSE IF path_exists(OUTPUT_FILES[clear_i].name)
            THEN clear_pc' = "unlink" /\ clear_i' = clear_i
            ELSE clear_pc' = "exists" /\ clear_i' = clear_i + 1

\* filepath.unlink(), which raises FileNotFoundError when the file is gone
clear_unlink ==
    /\ clear_pc = "unlink"
    /\ LET name == OUTPUT_FILES[clear_i].name
       IN  IF ~path_exists(name)
           THEN /\ clear_pc' = "raised"
                /\ UNCHANGED <<clear_i, files>>
           ELSE /\ files' = [files EXCEPT ![name] = [exists |-> FALSE, size |-> 0]]
                /\ clear_i' = clear_i + 1
                /\ clear_pc' = "exists"

(***************************************************************************)
(* The polling tracker on one thread, beside what changes the files: the   *)
(* crew writing its output, and the clear_output_dir() of another run      *)
(***************************************************************************)
\* a task of the crew creates its output file (and the directory)
CrewCreatesFile ==
    \E name \in FileNames :
        /\ ~path_exists(name)
        /\ dir_exists' = TRUE
        /\ files' = [files EXCEPT ![name] = [exists |-> TRUE, size |-> 0]]
        /\ poll_stable' = FALSE
        /\ fs_changes < MaxFsChanges
        /\ fs_changes' = fs_changes + 1
        /\ fresh_reset' = "no"
        /\ UNCHANGED <<gp_ret, reset_unlinked, monitorVars>>
        /\ UNCHANGED <<pollVars, clearVars, repeated, prev_count, trackerVars, appVars>>

\* a task of the crew writes to its output file
CrewWritesFile ==
    \E name \in FileNames :
        /\ path_exists(name)
        /\ files[name].size < MaxFileSize
        /\ files' = [files EXCEPT ![name].size = @ + 1]
        /\ poll_stable' = FALSE
        /\ fs_changes < MaxFsChanges
        /\ fs_changes' = fs_changes + 1
        /\ fresh_reset' = "no"
        /\ UNCHANGED <<gp_ret, reset_unlinked, monitorVars>>
        /\ UNCHANGED <<dir_exists, pollVars, clearVars, repeated, prev_count, trackerVars, appVars>>

\* app.py: run_debate_with_progress of another request unlinks a file in
\* its clear_output_dir()
OtherRunUnlinksFile ==
    \E name \in FileNames :
        /\ path_exists(name)
        /\ files' = [files EXCEPT ![name] = [exists |-> FALSE, size |-> 0]]
        /\ poll_stable' = FALSE
        /\ fs_changes < MaxFsChanges
        /\ fs_changes' = fs_changes + 1
        /\ UNCHANGED progressVars
        /\ UNCHANGED <<dir_exists, pollVars, clearVars, repeated, prev_count, trackerVars, appVars>>

GetCompletedTasksBegin ==
    /\ clear_pc \in {"idle", "raised"}
    /\ get_completed_tasks_begin
    /\ repeated' = (poll_outcome = "returned" /\ poll_stable)
    /\ poll_stable' = TRUE
    /\ UNCHANGED <<fsVars, fs_changes, clearVars, prev_count, trackerVars, appVars>>
    /\ UNCHANGED progressVars

ScanExists ==
    /\ scan_exists
    /\ UNCHANGED <<fsVars, fs_changes, clearVars, pollHistoryVars, trackerVars, appVars>>
    /\ UNCHANGED progressVars

ScanStat ==
    /\ scan_stat
    /\ UNCHANGED <<fsVars, fs_changes, clearVars, pollHistoryVars, trackerVars, appVars>>
    /\ UNCHANGED progressVars

GetCompletedTasksReturn ==
    /\ get_completed_tasks_return
    /\ prev_count' = Len(completed)
    /\ UNCHANGED progressVars
    /\ UNCHANGED <<fsVars, fs_changes, clearVars, poll_stable, repeated,
                   trackerVars, appVars>>

ClearOutputDirBegin ==
    /\ poll_pc = "idle"
    /\ clear_output_dir_begin
    /\ UNCHANGED progressVars
    /\ UNCHANGED <<fsVars, fs_changes, pollVars, pollHistoryVars, trackerVars, appVars>>

ClearExists ==
    /\ clear_exists
    /\ UNCHANGED progressVars
    /\ UNCHANGED <<fsVars, fs_changes, pollVars, pollHistoryVars, trackerVars, appVars>>

ClearUnlink ==
    /\ clear_unlink
    /\ UNCHANGED progressVars
    /\ poll_stable' = (poll_stable /\ files' = files)
    /\ UNCHANGED <<dir_exists, fs_changes, pollVars, repeated, prev_count,
                   trackerVars, appVars>>

\* what a file of the output directory can be: missing, or there with a size
FileStates == {[exists |-> FALSE, size |-> 0]} \cup
              {[exists |-> TRUE, size |-> n] : n \in 0..MaxFileSize}

\* the output directory is missing, or holds any of the files, left by
\* earlier runs
InitPolling ==
    /\ dir_exists \in BOOLEAN
    /\ files \in [FileNames -> FileStates]
    /\ ~dir_exists => \A f \in FileNames : ~files[f].exists
    /\ fs_changes = 0
    /\ poll_pc = "idle"
    /\ poll_i = 1
    /\ completed = <<>>
    /\ poll_outcome = "none"
    /\ clear_pc = "idle"
    /\ clear_i = 1
    /\ poll_stable = TRUE
    /\ repeated = FALSE
    /\ prev_count = 0
    /\ gp_ret = <<>>
    /\ fresh_reset = "no"
    /\ reset_unlinked = FALSE
    /\ mon_pc = "none"
    /\ last_progress = <<-1, 1>>


(***************************************************************************)
(* DebateProgressTracker.get_progress() and monitor_progress()             *)
(***************************************************************************)
\* x * k on a float kept as a pair
RatioTimes(x, k) == <<x[1] * k, x[2]>>

\* get_progress() naming the file reached last instead of the next one
DebateProgressTracker_get_progress_naming_last(completed_list) ==
    LET completed_count == Len(completed_list)
        progress == RatioTimes(Ratio(completed_count, total_tasks), 100)
        status ==
            IF completed_count = 0
            THEN <<"S","t","a","r","t","i","n","g"," ","d","e","b","a","t","e"," ","c","r","e","w",".",".",".">>
            ELSE IF completed_count < total_tasks
                 THEN <<"W","o","r","k","i","n","g"," ","o","n",":"," ">> \o OUTPUT_FILES[completed_count].desc
                 ELSE <<"D","e","b","a","t","e"," ","c","o","m","p","l","e","t","e","!">>
    IN  <<progress, status>>

\* get_progress() on the list get_completed_tasks() returned: Python's index
\* completed_count is position completed_count + 1 here
DebateProgressTracker_get_progress(completed_list) ==
    LET completed_count == Len(completed_list)
        progress == RatioTimes(Ratio(completed_count, total_tasks), 100)
        status ==
            IF completed_count = 0
            THEN <<"S","t","a","r","t","i","n","g"," ","d","e","b","a","t","e"," ","c","r","e","w",".",".",".">>
            ELSE IF completed_count < total_tasks
                 THEN <<"W","o","r","k","i","n","g"," ","o","n",":"," ">> \o OUTPUT_FILES[completed_count + 1].desc
                 ELSE <<"D","e","b","a","t","e"," ","c","o","m","p","l","e","t","e","!">>
    IN  <<progress, status>>

\* get_progress() is called and calls get_completed_tasks()
GetProgressBegin ==
    /\ clear_pc \in {"idle", "raised"}
    /\ mon_pc \in {"none", "closed", "raised"}
    /\ get_completed_tasks_begin
    /\ poll_stable' = TRUE
    /\ gp_ret' = <<>>
    /\ fresh_reset' = IF fresh_reset \in {"yes", "polled"} THEN "polled"
                      ELSE fresh_reset
    /\ UNCHANGED <<reset_unlinked, monitorVars>>
    /\ UNCHANGED <<fsVars, fs_changes, clearVars, repeated, prev_count,
                   trackerVars, appVars>>

\* get_completed_tasks() returns and get_progress() computes its pair
GetProgressReturn ==
    /\ mon_pc \in {"none", "closed", "raised"}
    /\ get_completed_tasks_return
    /\ gp_ret' = DebateProgressTracker_get_progress(completed)
    /\ UNCHANGED <<resetHistoryVars, monitorVars>>
    /\ UNCHANGED <<fsVars, fs_changes, clearVars, pollHistoryVars,
                   trackerVars, appVars>>

\* clear_output_dir() of the run that calls get_progress() next: what it
\* did is remembered until a file is created or written
ResetBegin ==
    /\ poll_pc = "idle"
    /\ clear_output_dir_begin
    /\ fresh_reset' = IF dir_exists THEN "running" ELSE "yes"
    /\ reset_unlinked' = FALSE
    /\ UNCHANGED <<gp_ret, monitorVars>>
    /\ UNCHANGED <<fsVars, fs_changes, pollVars, pollHistoryVars, trackerVars, appVars>>

ResetExists ==
    /\ clear_exists
    /\ fresh_reset' = IF clear_pc' = "idle" /\ fresh_reset = "running"
                      THEN "yes" ELSE fresh_reset
    /\ UNCHANGED <<gp_ret, reset_unlinked, monitorVars>>
    /\ UNCHANGED <<fsVars, fs_changes, pollVars, pollHistoryVars, trackerVars, appVars>>

ResetUnlink ==
    /\ clear_unlink
    /\ fresh_reset' = IF clear_pc' = "raised" THEN "no" ELSE fresh_reset
    /\ reset_unlinked' = (reset_unlinked \/ files' # files)
    /\ UNCHANGED <<gp_ret, monitorVars>>
    /\ poll_stable' = (poll_stable /\ files' = files)
    /\ UNCHANGED <<dir_exists, fs_changes, pollVars, repeated, prev_count,
                   trackerVars, appVars>>

\* progress >= 100
is_full(progress) == RatioLE(Ratio(100, 1), progress)

\* the first next() on a new generator: last_progress = -1, then the loop
\* is entered and get_progress() is called
monitor_begin ==
    /\ mon_pc \in {"none", "closed", "raised"}
    /\ last_progress' = <<-1, 1>>
    /\ mon_pc' = "get_progress"
    /\ gp_ret' = <<>>
    /\ UNCHANGED resetHistoryVars

\* progress, status = self.get_progress(); yield progress, status
monitor_yield ==
    /\ mon_pc = "get_progress"
    /\ gp_ret' = DebateProgressTracker_get_progress(completed)
    /\ mon_pc' = "yielded"
    /\ UNCHANGED <<resetHistoryVars, last_progress>>

\* the exception of get_completed_tasks() leaves get_progress() and the
\* generator, which is finished by it
monitor_raise ==
    /\ mon_pc = "get_progress"
    /\ poll_pc = "idle" /\ poll_outcome = "raised"
    /\ mon_pc' = "raised"
    /\ UNCHANGED <<gp_ret, resetHistoryVars, last_progress>>

\* the next next(): last_progress = progress; if progress >= 100: break;
\* otherwise time.sleep(poll_interval)
monitor_resume ==
    /\ mon_pc = "yielded"
    /\ last_progress' = gp_ret[1]
    /\ mon_pc' = IF is_full(gp_ret[1]) THEN "closed" ELSE "sleep"
    /\ UNCHANGED <<gp_ret, resetHistoryVars>>

\* the sleep is over: the loop calls get_progress() again
monitor_wake ==
    /\ mon_pc = "sleep"
    /\ mon_pc' = "get_progress"
    /\ gp_ret' = <<>>
    /\ UNCHANGED <<resetHistoryVars, last_progress>>

MonitorBegin ==
    /\ poll_pc = "idle"
    /\ monitor_begin
    /\ get_completed_tasks_begin
    /\ repeated' = (poll_outcome = "returned" /\ poll_stable)
    /\ poll_stable' = TRUE
    /\ UNCHANGED <<fsVars, fs_changes, clearVars, prev_count, trackerVars, appVars>>

MonitorYield ==
    /\ monitor_yield
    /\ get_completed_tasks_return
    /\ prev_count' = Len(completed)
    /\ UNCHANGED <<fsVars, fs_changes, clearVars, poll_stable, repeated,
                   trackerVars, appVars>>

MonitorRaise ==
    /\ monitor_raise
    /\ UNCHANGED <<pollingVars, trackerVars, appVars>>

MonitorResume ==
    /\ monitor_resume
    /\ UNCHANGED <<pollingVars, trackerVars, appVars>>

MonitorWake ==
    /\ monitor_wake
    /\ get_completed_tasks_begin
    /\ repeated' = (poll_outcome = "returned" /\ poll_stable)
    /\ poll_stable' = TRUE
    /\ UNCHANGED <<fsVars, fs_changes, clearVars, prev_count, trackerVars, appVars>>
(***************************************************************************)
(* The tracker under every sequence of notifications                       *)
(***************************************************************************)
InitState ==
    /\ current_task_index = 0
    /\ current_status = <<"I","n","i","t","i","a","l","i","z","i","n","g"," ","d","e","b","a","t","e",".",".",".">>
    /\ is_complete = FALSE
    /\ has_error = FALSE
    /\ error_message = <<>>

InitHistory ==
    /\ last_event = [kind |-> "none", name |-> <<>>]
    /\ crew_completed_seen = FALSE
    /\ failed_first = FALSE
    /\ unrecognised_seen = FALSE

InitRun ==
    /\ crew_step = 0
    /\ crew_state = "running"
    /\ failures = 0
    /\ obs_pc = "idle"
    /\ obs_progress = <<>>
    /\ ret = <<>>
    /\ held = {Snapshot(current_task_index, current_status, has_error,
                        error_message)}
    /\ delivered = 0
    /\ obs_at = 0
    /\ ret_at = [began |-> 0, ended |-> 0]

\* ProgressState(), as dataclass defaults
ProgressStateDefaults ==
    [current_task_index |-> 0, current_status |-> <<"I","n","i","t","i","a","l","i","z","i","n","g"," ","d","e","b","a","t","e",".",".",".">>,
     is_complete |-> FALSE, has_error |-> FALSE, error_message |-> <<>>]

\* run_debate_with_progress has constructed its tracker; nothing is
\* registered on the bus and no thread is started
InitApp ==
    /\ worker_pc = "not_started"
    /\ raised = "None"
    /\ crew_result = FALSE
    /\ crew_error = "None"
    /\ crew_done = FALSE
    /\ observer_pc = "start"
    /\ last_status = <<>>
    /\ run_result = "none"
    /\ bus_handlers = {}
    /\ saved_handlers = {}
    /\ later_pc = "none"
    /\ later_step = 0
    /\ later_saved = {}
    /\ later_state = <<>>

Init ==
    /\ InitState
    /\ progress_callback \in BOOLEAN
    /\ callback_args = <<>>
    /\ InitHistory
    /\ InitRun
    /\ InitPolling
    /\ InitApp
    /\ dir_exists = FALSE

TaskStarted ==
    \E event \in TaskEvents :
        /\ _on_task_started(event)
        /\ Record("task_started", _get_task_name_from_event(event))
        /\ UNCHANGED <<runVars, pollingVars, progressVars, appVars>>

TaskCompleted ==
    \E event \in TaskEvents :
        /\ _on_task_completed(event)
        /\ Record("task_completed", _get_task_name_from_event(event))
        /\ UNCHANGED <<runVars, pollingVars, progressVars, appVars>>

TaskFailed ==
    \E event \in TaskFailedEvents :
        /\ _on_task_failed(event)
        /\ Record("task_failed", _get_task_name_from_event(event))
        /\ UNCHANGED <<runVars, pollingVars, progressVars, appVars>>

CrewCompleted ==
    /\ _on_crew_completed([crew_name |-> <<"c","r","e","w">>])
    /\ Record("crew_completed", <<>>)
    /\ UNCHANGED <<runVars, pollingVars, progressVars, appVars>>

CrewFailed ==
    \E event \in CrewFailedEvents :
        /\ _on_crew_failed(event)
        /\ Record("crew_failed", <<>>)
        /\ UNCHANGED <<runVars, pollingVars, progressVars, appVars>>

Next ==
    \/ TaskStarted
    \/ TaskCompleted
    \/ TaskFailed
    \/ CrewCompleted
    \/ CrewFailed

Spec == Init /\ [][Next]_vars

(***************************************************************************)
(* One run of app.py: run_crew() delivers the crew's notifications while   *)
(* the polling loop of run_debate_with_progress calls get_state()          *)
(***************************************************************************)
\* app.py constructs the tracker without a callback
InitConc ==
    /\ InitState
    /\ progress_callback = FALSE
    /\ callback_args = <<>>
    /\ InitHistory
    /\ InitRun
    /\ InitPolling
    /\ InitApp
    /\ dir_exists = FALSE

NextConc ==
    \/ CrewTaskStarted
    \/ CrewTaskCompleted
    \/ CrewTaskFailed
    \/ CrewKickoffCompleted
    \/ CrewKickoffFailed
    \/ GetStateProgress
    \/ GetStateReturn

SpecConc == InitConc /\ [][NextConc]_vars


(***************************************************************************)
(* The polling tracker: get_completed_tasks() and clear_output_dir() while *)
(* the crew writes its output files                                        *)
(***************************************************************************)
InitPoll ==
    /\ InitState
    /\ progress_callback = FALSE
    /\ callback_args = <<>>
    /\ InitHistory
    /\ InitRun
    /\ InitPolling
    /\ InitApp

NextPoll ==
    \/ CrewCreatesFile
    \/ CrewWritesFile
    \/ OtherRunUnlinksFile
    \/ GetCompletedTasksBegin
    \/ ScanExists
    \/ ScanStat
    \/ GetCompletedTasksReturn
    \/ ClearOutputDirBegin
    \/ ClearExists
    \/ ClearUnlink

SpecPoll == InitPoll /\ [][NextPoll]_vars

(***************************************************************************)
(* The polling tracker's get_progress(), after clear_output_dir() or not,  *)
(* while the crew writes its output files                                  *)
(***************************************************************************)
NextProgress ==
    \/ CrewCreatesFile
    \/ CrewWritesFile
    \/ OtherRunUnlinksFile
    \/ GetProgressBegin
    \/ ScanExists
    \/ ScanStat
    \/ GetProgressReturn
    \/ ResetBegin
    \/ ResetExists
    \/ ResetUnlink

SpecProgress == InitPoll /\ [][NextProgress]_vars

(***************************************************************************)
(* A consumer iterating monitor_progress() while the crew writes its       *)
(* output files; the consumer keeps calling next() and a call in progress  *)
(* keeps running                                                           *)
(***************************************************************************)
MonitorStep ==
    \/ ScanExists
    \/ ScanStat
    \/ MonitorYield
    \/ MonitorRaise
    \/ MonitorResume
    \/ MonitorWake

NextMon ==
    \/ CrewCreatesFile
    \/ CrewWritesFile
    \/ OtherRunUnlinksFile
    \/ MonitorBegin
    \/ ScanExists
    \/ ScanStat
    \/ MonitorYield
    \/ MonitorRaise
    \/ MonitorResume
    \/ MonitorWake

SpecMon == InitPoll /\ [][NextMon]_vars /\ WF_vars(MonitorStep)

(***************************************************************************)
(* The tracker under stage notifications that spell the registry keys in   *)
(* other ways, or carry a part of them                                     *)
(***************************************************************************)
ResolveTaskStarted ==
    \E name \in ResolutionNames :
        /\ _on_task_started([task_name |-> name])
        /\ Record("task_started", name)
        /\ UNCHANGED <<runVars, pollingVars, progressVars, appVars>>

ResolveTaskCompleted ==
    \E name \in ResolutionNames :
        /\ _on_task_completed([task_name |-> name])
        /\ Record("task_completed", name)
        /\ UNCHANGED <<runVars, pollingVars, progressVars, appVars>>

ResolveTaskFailed ==
    \E name \in ResolutionNames, e \in Errors :
        /\ _on_task_failed([task_name |-> name, error |-> e])
        /\ Record("task_failed", name)
        /\ UNCHANGED <<runVars, pollingVars, progressVars, appVars>>

NextResolve ==
    \/ ResolveTaskStarted
    \/ ResolveTaskCompleted
    \/ ResolveTaskFailed

SpecResolve == InitConc /\ [][NextResolve]_vars

(***************************************************************************)
(* app.py, run_debate_with_progress: run_crew() on the worker thread, the  *)
(* polling loop on the caller's thread, and the request served after it    *)
(***************************************************************************)
\* leaving the with block of run_crew() without putting the handlers back
scoped_handlers_exit_keeping(saved, registered) == saved \cup registered

\* crewai_event_bus.scoped_handlers(): entering the with block sets the
\* registered handlers aside and starts with none, leaving it puts them back
scoped_handlers_enter(registered) == [saved |-> registered, registered |-> {}]

scoped_handlers_exit(saved, registered) == saved

\* tracker.register_handlers(): the five handlers of one tracker
register_handlers(registered, tracker) == registered \cup {tracker}

\* crew_thread.start(); progress(0, desc="Starting debate crew...")
ObserverStart ==
    /\ observer_pc = "start"
    /\ worker_pc' = "scope"
    /\ observer_pc' = "while"
    /\ UNCHANGED <<raised, crew_result, crew_error, crew_done, last_status,
                   run_result, busVars, laterVars>>
    /\ UNCHANGED <<trackerVars, pollingVars, progressVars>>

\* with crewai_event_bus.scoped_handlers():
WorkerEnterScope ==
    /\ worker_pc = "scope"
    /\ saved_handlers' = scoped_handlers_enter(bus_handlers).saved
    /\ bus_handlers' = scoped_handlers_enter(bus_handlers).registered
    /\ worker_pc' = "register"
    /\ UNCHANGED <<raised, crew_result, crew_error, crew_done, observerVars,
                   laterVars>>
    /\ UNCHANGED <<trackerVars, pollingVars, progressVars>>

\* tracker.register_handlers()
WorkerRegisterHandlers ==
    /\ worker_pc = "register"
    /\ bus_handlers' = register_handlers(bus_handlers, "this")
    /\ worker_pc' = "kickoff"
    /\ UNCHANGED <<raised, crew_result, crew_error, crew_done, saved_handlers,
                   observerVars, laterVars>>
    /\ UNCHANGED <<trackerVars, pollingVars, progressVars>>

\* tracker.register_handlers() raises
WorkerRegisterRaises ==
    /\ worker_pc = "register"
    /\ raised' = "Exception"
    /\ worker_pc' = "exit_scope"
    /\ UNCHANGED <<crew_result, crew_error, crew_done, busVars, observerVars,
                   laterVars>>
    /\ UNCHANGED <<trackerVars, pollingVars, progressVars>>

\* kickoff(): the crew's notifications reach the handlers on the bus
KickoffTaskStarted ==
    /\ worker_pc = "kickoff" /\ "this" \in bus_handlers
    /\ CrewTaskStarted

KickoffTaskCompleted ==
    /\ worker_pc = "kickoff" /\ "this" \in bus_handlers
    /\ CrewTaskCompleted

KickoffTaskFailed ==
    /\ worker_pc = "kickoff" /\ "this" \in bus_handlers
    /\ CrewTaskFailed

KickoffCompleted ==
    /\ worker_pc = "kickoff" /\ "this" \in bus_handlers
    /\ CrewKickoffCompleted

KickoffFailed ==
    /\ worker_pc = "kickoff" /\ "this" \in bus_handlers
    /\ CrewKickoffFailed

\* crew_result[0] = ...kickoff(inputs=...)
WorkerKickoffReturns ==
    /\ worker_pc = "kickoff"
    /\ crew_state = "completed"
    /\ crew_result' = TRUE
    /\ worker_pc' = "exit_scope"
    /\ UNCHANGED <<raised, crew_error, crew_done, busVars, observerVars,
                   laterVars>>
    /\ UNCHANGED <<trackerVars, pollingVars, progressVars>>

\* kickoff() raises after the crew has failed
WorkerKickoffRaises ==
    /\ worker_pc = "kickoff"
    /\ crew_state = "failed"
    /\ raised' = "Exception"
    /\ worker_pc' = "exit_scope"
    /\ UNCHANGED <<crew_result, crew_error, crew_done, busVars, observerVars,
                   laterVars>>
    /\ UNCHANGED <<trackerVars, pollingVars, progressVars>>

\* kickoff() never returns: the crew emits nothing more
WorkerHangs ==
    /\ worker_pc = "kickoff"
    /\ crew_state = "running"
    /\ worker_pc' = "hung"
    /\ UNCHANGED <<raised, crew_result, crew_error, crew_done, busVars,
                   observerVars, laterVars>>
    /\ UNCHANGED <<trackerVars, pollingVars, progressVars>>

\* the with block is left, by return or by exception
WorkerExitScope ==
    /\ worker_pc = "exit_scope"
    /\ bus_handlers' = scoped_handlers_exit(saved_handlers, bus_handlers)
    /\ worker_pc' = IF raised # "None" THEN "except" ELSE "finally"
    /\ UNCHANGED <<raised, crew_result, crew_error, crew_done, saved_handlers,
                   observerVars, laterVars>>
    /\ UNCHANGED <<trackerVars, pollingVars, progressVars>>

\* run_crew() whose done signal is set on the normal path only
run_crew_except_skipping_done ==
    /\ worker_pc = "except"
    /\ crew_error' = raised
    /\ worker_pc' = "finished"

\* except Exception as e: crew_error[0] = e
run_crew_except ==
    /\ worker_pc = "except"
    /\ crew_error' = raised
    /\ worker_pc' = "finally"

WorkerExcept ==
    /\ run_crew_except
    /\ UNCHANGED <<raised, crew_result, crew_done, busVars, observerVars,
                   laterVars>>
    /\ UNCHANGED <<trackerVars, pollingVars, progressVars>>

\* finally: crew_done.set(); the thread ends
WorkerFinally ==
    /\ worker_pc = "finally"
    /\ crew_done' = TRUE
    /\ worker_pc' = "finished"
    /\ UNCHANGED <<raised, crew_result, crew_error, busVars, observerVars,
                   laterVars>>
    /\ UNCHANGED <<trackerVars, pollingVars, progressVars>>

\* while not crew_done.is_set():
ObserverTestDone ==
    /\ observer_pc = "while"
    /\ observer_pc' = IF crew_done THEN "join" ELSE "get_state"
    /\ UNCHANGED <<workerVars, last_status, run_result, busVars, laterVars>>
    /\ UNCHANGED <<trackerVars, pollingVars, progressVars>>

\* tracker.get_state(), first lock acquisition
ObserverGetStateProgress ==
    /\ observer_pc = "get_state"
    /\ obs_progress' = get_progress(current_task_index, current_status)
    /\ observer_pc' = "get_state_error"
    /\ UNCHANGED <<workerVars, last_status, run_result, busVars, laterVars>>
    /\ UNCHANGED <<stateVars, callbackVars, historyVars, crewVars, obs_pc, ret,
                   runHistoryVars, pollingVars, progressVars>>

\* tracker.get_state(), second lock acquisition; then
\* if status != last_status: progress(prog, desc=status); last_status = status
\* and time.sleep(0.3). Of the four values returned the loop reads status
\* only, and the next iteration assigns all four again.
ObserverGetStateReturn ==
    /\ observer_pc = "get_state_error"
    /\ last_status' = obs_progress[2]
    /\ obs_progress' = <<>>
    /\ observer_pc' = "while"
    /\ UNCHANGED <<workerVars, run_result, busVars, laterVars>>
    /\ UNCHANGED <<stateVars, callbackVars, historyVars, crewVars, obs_pc, ret,
                   runHistoryVars, pollingVars, progressVars>>

\* crew_thread.join(timeout=5), which returns when the thread has ended or
\* the five seconds are over; progress(1.0, desc="Debate complete!")
ObserverJoin ==
    /\ observer_pc = "join"
    /\ observer_pc' = "check_error"
    /\ UNCHANGED <<workerVars, last_status, run_result, busVars, laterVars>>
    /\ UNCHANGED <<trackerVars, pollingVars, progressVars>>

\* if crew_error[0]: return "**Error running debate:**..."
ObserverCheckError ==
    /\ observer_pc = "check_error"
    /\ IF crew_error # "None"
       THEN run_result' = "error" /\ observer_pc' = "returned"
       ELSE run_result' = run_result /\ observer_pc' = "final_state"
    /\ UNCHANGED <<workerVars, last_status, busVars, laterVars>>
    /\ UNCHANGED <<trackerVars, pollingVars, progressVars>>

\* _, _, has_error, error_msg = tracker.get_state(), first lock acquisition
ObserverFinalStateProgress ==
    /\ observer_pc = "final_state"
    /\ obs_progress' = get_progress(current_task_index, current_status)
    /\ observer_pc' = "final_state_error"
    /\ UNCHANGED <<workerVars, last_status, run_result, busVars, laterVars>>
    /\ UNCHANGED <<stateVars, callbackVars, historyVars, crewVars, obs_pc, ret,
                   runHistoryVars, pollingVars, progressVars>>

\* second lock acquisition; if has_error: return "**Debate completed with
\* warnings:**..." and otherwise "**Debate completed successfully!**..."
ObserverFinalStateReturn ==
    /\ observer_pc = "final_state_error"
    /\ ret' = <<obs_progress[1], obs_progress[2], has_error, error_message>>
    /\ obs_progress' = <<>>
    /\ run_result' = IF has_error THEN "warnings" ELSE "success"
    /\ observer_pc' = "returned"
    /\ UNCHANGED <<workerVars, last_status, busVars, laterVars>>
    /\ UNCHANGED <<stateVars, callbackVars, historyVars, crewVars, obs_pc,
                   runHistoryVars, pollingVars, progressVars>>

\* ProgressState.update() on the record of another tracker
updated(state, args) ==
    [current_task_index |->
        IF "task_index" \in DOMAIN args THEN args.task_index
        ELSE state.current_task_index,
     current_status |->
        IF "status" \in DOMAIN args THEN args.status ELSE state.current_status,
     is_complete |->
        IF "complete" \in DOMAIN args THEN args.complete ELSE state.is_complete,
     has_error |-> IF "error" \in DOMAIN args THEN TRUE ELSE state.has_error,
     error_message |->
        IF "error" \in DOMAIN args THEN args.error ELSE state.error_message]

\* the next request: tracker = EventDrivenProgressTracker(), and its thread
\* is started
LaterRunStarts ==
    /\ observer_pc = "returned"
    /\ later_pc = "none"
    /\ later_state' = ProgressStateDefaults
    /\ later_pc' = "scope"
    /\ UNCHANGED <<later_step, later_saved, workerVars, observerVars, busVars>>
    /\ UNCHANGED <<trackerVars, pollingVars, progressVars>>

LaterEnterScope ==
    /\ later_pc = "scope"
    /\ later_saved' = scoped_handlers_enter(bus_handlers).saved
    /\ bus_handlers' = scoped_handlers_enter(bus_handlers).registered
    /\ later_pc' = "register"
    /\ UNCHANGED <<later_step, later_state, saved_handlers, workerVars,
                   observerVars>>
    /\ UNCHANGED <<trackerVars, pollingVars, progressVars>>

LaterRegisterHandlers ==
    /\ later_pc = "register"
    /\ bus_handlers' = register_handlers(bus_handlers, "later")
    /\ later_pc' = "kickoff"
    /\ UNCHANGED <<later_step, later_state, later_saved, saved_handlers,
                   workerVars, observerVars>>
    /\ UNCHANGED <<trackerVars, pollingVars, progressVars>>

\* its crew emits the next stage notification, which every handler on the
\* bus for that kind receives: those of its own tracker, and those of this
\* run's tracker when they are registered
LaterEmitsTaskEvent ==
    /\ later_pc = "kickoff"
    /\ later_step < 2 * Len(CrewTasks)
    /\ LET name == CrewTasks[(later_step \div 2) + 1]
           info == _get_task_info(name)
           started == later_step % 2 = 0
       IN  /\ later_state' =
                IF "later" \notin bus_handlers THEN later_state
                ELSE IF started
                     THEN updated(later_state,
                                  [task_index |-> info[1],
                                   status |-> <<"S","t","a","r","t","i","n","g",":"," ">> \o info[2]])
                     ELSE updated(later_state,
                                  [task_index |-> info[1] + 1,
                                   status |-> <<"C","o","m","p","l","e","t","e","d",":"," ">> \o info[2]])
           /\ IF "this" \in bus_handlers
              THEN IF started
                   THEN /\ _on_task_started([task_name |-> name])
                        /\ Record("task_started", name)
                   ELSE /\ _on_task_completed([task_name |-> name])
                        /\ Record("task_completed", name)
              ELSE UNCHANGED <<stateVars, callbackVars, historyVars>>
    /\ later_step' = later_step + 1
    /\ UNCHANGED <<later_pc, later_saved, workerVars, observerVars, busVars>>
    /\ UNCHANGED <<runVars, pollingVars, progressVars>>

\* its crew emits the run-completed notification and kickoff() returns
LaterEmitsCrewCompleted ==
    /\ later_pc = "kickoff"
    /\ later_step = 2 * Len(CrewTasks)
    /\ later_state' =
         IF "later" \notin bus_handlers THEN later_state
         ELSE updated(later_state, [task_index |-> 6,
                                    status |-> <<"D","e","b","a","t","e"," ","c","o","m","p","l","e","t","e","!">>,
                                    complete |-> TRUE])
    /\ IF "this" \in bus_handlers
       THEN /\ _on_crew_completed([crew_name |-> <<"c","r","e","w">>])
            /\ Record("crew_completed", <<>>)
       ELSE UNCHANGED <<stateVars, callbackVars, historyVars>>
    /\ later_step' = later_step + 1
    /\ later_pc' = "exit_scope"
    /\ UNCHANGED <<later_saved, workerVars, observerVars, busVars>>
    /\ UNCHANGED <<runVars, pollingVars, progressVars>>

LaterExitScope ==
    /\ later_pc = "exit_scope"
    /\ bus_handlers' = scoped_handlers_exit(later_saved, bus_handlers)
    /\ later_pc' = "finished"
    /\ UNCHANGED <<later_step, later_state, later_saved, saved_handlers,
                   workerVars, observerVars>>
    /\ UNCHANGED <<trackerVars, pollingVars, progressVars>>

\* the steps of the worker thread that follow from its own code and from a
\* crew that goes on
WorkerStep ==
    \/ WorkerEnterScope
    \/ WorkerRegisterHandlers
    \/ KickoffTaskStarted
    \/ KickoffTaskCompleted
    \/ KickoffCompleted
    \/ WorkerKickoffReturns
    \/ WorkerKickoffRaises
    \/ WorkerExitScope
    \/ WorkerExcept
    \/ WorkerFinally

\* the steps of the thread that called run_debate_with_progress
ObserverStep ==
    \/ ObserverStart
    \/ ObserverTestDone
    \/ ObserverGetStateProgress
    \/ ObserverGetStateReturn
    \/ ObserverJoin
    \/ ObserverCheckError
    \/ ObserverFinalStateProgress
    \/ ObserverFinalStateReturn

NextRun ==
    \/ ObserverStart
    \/ WorkerEnterScope
    \/ WorkerRegisterHandlers
    \/ WorkerRegisterRaises
    \/ KickoffTaskStarted
    \/ KickoffTaskCompleted
    \/ KickoffTaskFailed
    \/ KickoffCompleted
    \/ KickoffFailed
    \/ WorkerKickoffReturns
    \/ WorkerKickoffRaises
    \/ WorkerHangs
    \/ WorkerExitScope
    \/ WorkerExcept
    \/ WorkerFinally
    \/ ObserverTestDone
    \/ ObserverGetStateProgress
    \/ ObserverGetStateReturn
    \/ ObserverJoin
    \/ ObserverCheckError
    \/ ObserverFinalStateProgress
    \/ ObserverFinalStateReturn

\* both threads are scheduled again and again
SpecRun ==
    InitConc /\ [][NextRun]_vars /\ WF_vars(ObserverStep) /\ WF_vars(WorkerStep)

\* one run and the request served after it
NextRuns ==
    \/ ObserverStart
    \/ WorkerEnterScope
    \/ WorkerRegisterHandlers
    \/ WorkerRegisterRaises
    \/ KickoffTaskStarted
    \/ KickoffTaskCompleted
    \/ KickoffTaskFailed
    \/ KickoffCompleted
    \/ KickoffFailed
    \/ WorkerKickoffReturns
    \/ WorkerKickoffRaises
    \/ WorkerHangs
    \/ WorkerExitScope
    \/ WorkerExcept
    \/ WorkerFinally
    \/ ObserverTestDone
    \/ ObserverGetStateProgress
    \/ ObserverGetStateReturn
    \/ ObserverJoin
    \/ ObserverCheckError
    \/ ObserverFinalStateProgress
    \/ ObserverFinalStateReturn
    \/ LaterRunStarts
    \/ LaterEnterScope
    \/ LaterRegisterHandlers
    \/ LaterEmitsTaskEvent
    \/ LaterEmitsCrewCompleted
    \/ LaterExitScope

SpecRuns == InitConc /\ [][NextRuns]_vars
(***************************************************************************)
(* Properties                                                              *)
(***************************************************************************)
\* the fraction get_progress() reports of the record's current values
Fraction == get_progress(current_task_index, current_status)[1]

StageKinds == {"task_started", "task_completed"}

\* the names the events carry, lowercased and with "_" for " " and "-"
NormalizedName ==
    [name \in EventTaskNames |-> replace(replace(lower(name), " ", "_"), "-", "_")]

\* the names, among those, of which no registry key is a substring after
\* normalisation and which are a substring of no key
NamesMatchingNoKey ==
    {name \in EventTaskNames :
        \A key \in TaskKeys :
            /\ ~contains(key, NormalizedName[name])
            /\ ~contains(NormalizedName[name], key)}

\* C3: current_task_index never decreases, whatever notifications are
\* delivered, in any order and with any task name.
C3_OrdinalNeverDecreases ==
    [][current_task_index' >= current_task_index]_vars

\* C4: once has_error is true it is true in every later state: no
\* notification of any kind sets it back to false.
C4_ErrorIsSticky == [][has_error => has_error']_vars

\* C4's case: an error was recorded and a run-completed notification was
\* delivered after it.
C4_Witness ==
    /\ has_error
    /\ last_event.kind = "crew_completed"
    /\ error_message # <<>>

\* C5: the reported fraction is within [0, 1], i.e. 0 <= current_task_index
\* <= N, in every reachable state, also after notifications whose task name
\* matches no registry key.
C5_FractionInRange ==
    /\ 0 <= current_task_index /\ current_task_index <= N
    /\ RatioLE(Ratio(0, 1), Fraction) /\ RatioLE(Fraction, Ratio(1, 1))

\* C6: a task name matching no registry key resolves to index -1 with the
\* raw name as description (the handler stores them), and a stage
\* notification whose name is a registry key, up to case, spaces and
\* hyphens, sets index and status to the values of that entry whether or
\* not notifications with unrecognised names came before it.
C6_UnrecognisedNameIsHarmless ==
    /\ \A name \in NamesMatchingNoKey : _get_task_info(name) = <<-1, name>>
    /\ (last_event.kind = "task_started" /\ last_event.name \in NamesMatchingNoKey)
         => /\ current_task_index = -1
            /\ current_status = <<"S","t","a","r","t","i","n","g",":"," ">> \o last_event.name
    /\ (last_event.kind = "task_completed" /\ last_event.name \in NamesMatchingNoKey)
         => /\ current_task_index = 0
            /\ current_status = <<"C","o","m","p","l","e","t","e","d",":"," ">> \o last_event.name
    /\ \A i \in 1..Len(TASK_INFO) :
         (last_event.kind \in StageKinds
            /\ NormalizedName[last_event.name] = TASK_INFO[i].key)
           => /\ current_task_index =
                   TASK_INFO[i].index + (IF last_event.kind = "task_completed" THEN 1 ELSE 0)
              /\ current_status =
                   (IF last_event.kind = "task_completed"
                    THEN <<"C","o","m","p","l","e","t","e","d",":"," ">> ELSE <<"S","t","a","r","t","i","n","g",":"," ">>) \o TASK_INFO[i].desc

\* C6's case: a notification with an unrecognised name was delivered and the
\* stage-started notification of a registry key came after it.
C6_Witness ==
    /\ unrecognised_seen
    /\ last_event.kind = "task_started"
    /\ last_event.name = TASK_INFO[4].key
    /\ current_task_index = 3

\* C8: is_complete is false as long as no run-completed notification was
\* delivered, also when the index has reached N; the run-completed handler
\* leaves index N, the completion text and is_complete = TRUE.
C8_CompleteOnlyByRunCompleted ==
    /\ ~crew_completed_seen => ~is_complete
    /\ last_event.kind = "crew_completed"
         => /\ current_task_index = N
            /\ current_status = <<"D","e","b","a","t","e"," ","c","o","m","p","l","e","t","e","!">>
            /\ is_complete

\* C8's case: stage-completed of the last stage brought the index to N and
\* no run-completed notification was delivered.
C8_Witness ==
    /\ ~crew_completed_seen
    /\ last_event = [kind |-> "task_completed", name |-> TASK_INFO[6].key]
    /\ current_task_index = N
    /\ ~is_complete

\* C9: a run-failed notification records "Debate failed: <error>" with
\* has_error true, and from a run-failed notification delivered before any
\* run-completed one on, is_complete stays false.
C9_RunFailedIsTerminal ==
    /\ last_event.kind = "crew_failed"
         => /\ has_error
            /\ error_message \in {<<"D","e","b","a","t","e"," ","f","a","i","l","e","d",":"," ">> \o event_error(event) :
                                    event \in CrewFailedEvents}
    /\ failed_first => ~is_complete

(***************************************************************************)
(* Properties of one run (SpecConc)                                        *)
(***************************************************************************)
\* the fraction 1.0
One == Ratio(1, 1)

\* a get_state() call has just read a fraction that follows an earlier
\* call's: the two are consecutive samples
NextSample == obs_pc = "idle" /\ obs_pc' = "read_error" /\ ret # <<>>

\* the crew has delivered stage-completed of the last task
LastStageCompleted == crew_step = 2 * N

\* the last get_state() ran with no notification delivered during it, and
\* none was delivered since: ret is what the accessor returns now
Quiet == ret # <<>> /\ ret_at.began = ret_at.ended /\ ret_at.ended = delivered

\* C1: with the stage notifications delivered in registry order, the
\* fraction get_state() returns never decreases from one sample to the next,
\* and it is 1.0 only once a run-completed notification has been delivered.
C1_FullOnlyAfterRunCompleted ==
    /\ [][NextSample => RatioLE(ret[1], obs_progress'[1])]_vars
    /\ [](obs_pc = "read_error" /\ RatioEQ(obs_progress[1], One)
            => crew_completed_seen)
    /\ [](ret # <<>> /\ RatioEQ(ret[1], One) => crew_completed_seen)

\* C1, amended: the fraction never decreases from one sample to the next,
\* and it is 1.0 only once a run-completed notification or the
\* stage-completed notification of the last stage has been delivered.
C1_FullOnlyAfterLastStage ==
    /\ [][NextSample => RatioLE(ret[1], obs_progress'[1])]_vars
    /\ [](obs_pc = "read_error" /\ RatioEQ(obs_progress[1], One)
            => crew_completed_seen \/ LastStageCompleted)
    /\ [](ret # <<>> /\ RatioEQ(ret[1], One)
            => crew_completed_seen \/ LastStageCompleted)

\* C1's case: a sample of 1.0 follows a smaller one, after stage-completed
\* of the last stage and before any run-completed notification.
C1_Witness ==
    /\ obs_pc = "read_error"
    /\ RatioEQ(obs_progress[1], One)
    /\ ret # <<>> /\ ~RatioEQ(ret[1], One)
    /\ LastStageCompleted
    /\ ~crew_completed_seen

\* C2: every tuple get_state() returns is a tuple of values the record held
\* at one instant.
C2_ConsistentSnapshot == ret # <<>> => ret \in held

\* C7: after start(0), complete(0), ..., start(k) and no failure,
\* get_state() returns fraction k/N, status "Starting: <description of
\* stage k>" and has_error = FALSE; after a run-completed notification it
\* returns fraction 1.0 and is_complete is true.
C7_EndToEnd ==
    /\ \A k \in 0..(N - 1) :
         (Quiet /\ crew_state = "running" /\ crew_step = 2 * k + 1 /\ failures = 0)
           => /\ RatioEQ(ret[1], Ratio(k, N))
              /\ ret[2] = <<"S","t","a","r","t","i","n","g",":"," ">> \o TASK_INFO[k + 1].desc
              /\ ret[3] = FALSE
    /\ (Quiet /\ crew_state = "completed")
         => RatioEQ(ret[1], One) /\ is_complete

\* C7's case: get_state() called after start(0), complete(0), start(1)
\* returned 1/6.
C7_Witness ==
    /\ Quiet
    /\ crew_state = "running" /\ crew_step = 3 /\ failures = 0
    /\ ret[1] = <<1, 6>>
    /\ ret[2] = <<"S","t","a","r","t","i","n","g",":"," ","O","p","p","o","s","i","t","i","o","n"," ","o","p","e","n","i","n","g"," ","s","t","a","t","e","m","e","n","t">>

(***************************************************************************)
(* Properties of the polling tracker (SpecPoll)                            *)
(***************************************************************************)
\* the file exists with a size above 0
HasContent(name) == dir_exists /\ files[name].exists /\ files[name].size > 0

\* get_completed_tasks() has scanned every file and is about to return
\* completed, and no file changed while it ran
ScanDone == poll_pc = "exists" /\ poll_i > Len(OUTPUT_FILES) /\ poll_stable

\* C10: get_completed_tasks() returns the names of OUTPUT_FILES whose file
\* exists with size > 0, all of them and not only a leading run; the call
\* changes no file; and a repeated call on unchanged files returns as many.
C10_CompletedCount ==
    /\ [](ScanDone =>
            /\ completed = SelectSeq([i \in 1..Len(OUTPUT_FILES) |-> OUTPUT_FILES[i].name],
                                     HasContent)
            /\ Len(completed) = Cardinality({name \in FileNames : HasContent(name)})
            /\ repeated => Len(completed) = prev_count)
    /\ [][pollVars' # pollVars => fsVars' = fsVars]_vars

\* C10's case: a repeated call on unchanged files is about to return two
\* names while the first file is missing and the third is empty.
C10_Witness ==
    /\ ScanDone
    /\ repeated
    /\ ~files[OUTPUT_FILES[1].name].exists
    /\ files[OUTPUT_FILES[3].name].exists /\ files[OUTPUT_FILES[3].name].size = 0
    /\ completed = <<OUTPUT_FILES[2].name, OUTPUT_FILES[4].name>>


(***************************************************************************)
(* Failures of the filesystem calls (SpecPoll)                             *)
(***************************************************************************)
\* C14: get_completed_tasks() never ends by raising: a file that cannot be
\* examined (it was unlinked between filepath.exists() and filepath.stat())
\* is treated as missing and the call returns its list.
C14_PollingNeverRaises == poll_outcome # "raised"

\* C15: clear_output_dir() is best effort for each file: it does not stop
\* at a file that is missing when it is to be unlinked, so whenever it has
\* ended, by returning or on a failed unlink, none of the files it was to
\* delete after that one is still there.
C15_ResetBestEffort ==
    clear_pc = "raised" =>
        \A i \in (clear_i + 1)..Len(OUTPUT_FILES) :
            ~path_exists(OUTPUT_FILES[i].name)

(***************************************************************************)
(* Properties of the polling tracker's get_progress() (SpecProgress)       *)
(***************************************************************************)
\* the files that exist with a size above 0, counted
CompletedCount == Cardinality({name \in FileNames : HasContent(name)})

\* C11: get_progress() on files that did not change during the call returns
\* the percentage c / N * 100, c being the number of files with content, and
\* the status "Starting debate crew..." for c = 0, "Working on: <description
\* of the entry of OUTPUT_FILES at index c>" for 0 < c < N and
\* "Debate complete!" for c = N.
C11_PollingProgress ==
    (gp_ret # <<>> /\ poll_stable) =>
        /\ RatioEQ(gp_ret[1], Ratio(CompletedCount * 100, total_tasks))
        /\ CompletedCount = 0 => gp_ret[2] = <<"S","t","a","r","t","i","n","g"," ","d","e","b","a","t","e"," ","c","r","e","w",".",".",".">>
        /\ (0 < CompletedCount /\ CompletedCount < total_tasks) =>
              gp_ret[2] = <<"W","o","r","k","i","n","g"," ","o","n",":"," ">> \o OUTPUT_FILES[CompletedCount + 1].desc
        /\ CompletedCount = total_tasks => gp_ret[2] = <<"D","e","b","a","t","e"," ","c","o","m","p","l","e","t","e","!">>

\* C11's case: the first three files have content, the fourth is empty and
\* the last two are missing; get_progress() returned 50 and names the
\* fourth stage.
C11_Witness ==
    /\ gp_ret # <<>> /\ poll_stable
    /\ \A i \in 1..3 : HasContent(OUTPUT_FILES[i].name)
    /\ files[OUTPUT_FILES[4].name] = [exists |-> TRUE, size |-> 0]
    /\ \A i \in 5..6 : ~files[OUTPUT_FILES[i].name].exists
    /\ RatioEQ(gp_ret[1], Ratio(50, 1))
    /\ gp_ret[2] = <<"W","o","r","k","i","n","g"," ","o","n",":"," ","P","r","o","p","o","s","i","t","i","o","n"," ","r","e","b","u","t","t","a","l">>

\* C12: get_progress() called after clear_output_dir() has returned, with no
\* file created or written since clear_output_dir() began, returns 0 and
\* "Starting debate crew...", whatever the files were before.
C12_ResetThenProgress ==
    (gp_ret # <<>> /\ fresh_reset = "polled") =>
        /\ RatioEQ(gp_ret[1], Ratio(0, 1))
        /\ gp_ret[2] = <<"S","t","a","r","t","i","n","g"," ","d","e","b","a","t","e"," ","c","r","e","w",".",".",".">>

\* C12's case: clear_output_dir() unlinked a file and returned, and the
\* get_progress() called after it has returned.
C12_Witness ==
    /\ gp_ret # <<>>
    /\ fresh_reset = "polled"
    /\ reset_unlinked
    /\ dir_exists

(***************************************************************************)
(* Properties of monitor_progress() (SpecMon)                              *)
(***************************************************************************)
\* every file of OUTPUT_FILES exists with a size above 0
AllFilesHaveContent == \A name \in FileNames : HasContent(name)

\* a generator of monitor_progress() is being iterated
MonitorRunning == mon_pc \in {"get_progress", "yielded", "sleep"}

\* the generator is finished: its loop was left or an exception left it
MonitorEnded == mon_pc \in {"closed", "raised"}

\* C13: the sequence monitor_progress() produces closes at completion: after
\* a sample of 100 was yielded no further sample is, the generator is
\* finished only after a sample of 100, and if from some time on every file
\* has content then every generator being iterated finishes.
C13_MonitorClosesAtCompletion ==
    /\ [][(mon_pc = "yielded" /\ is_full(gp_ret[1]))
            => mon_pc' \in {"yielded", "closed"}]_vars
    /\ [](MonitorEnded => is_full(last_progress))
    /\ (<>[]AllFilesHaveContent) => [](MonitorRunning => <>MonitorEnded)

(***************************************************************************)
(* Properties of the handlers, continued (Spec, SpecResolve)               *)
(***************************************************************************)
\* the messages _on_task_failed can record for a task name
TaskFailedMessages(name) ==
    {<<"T","a","s","k"," ","'">> \o name \o <<"'"," ","f","a","i","l","e","d",":"," ">> \o e : e \in Errors \cup {<<"U","n","k","n","o","w","n"," ","e","r","r","o","r">>}}

\* C18: a stage-failed notification sets has_error and the message
\* "Task '<name>' failed: <error>" and leaves index, status and is_complete
\* as they were; a stage-started or stage-completed notification delivered
\* when an error is recorded sets index and status as it does without one.
C18_StageFailedChangesOnlyError ==
    /\ [][last_event'.kind = "task_failed" =>
            /\ current_task_index' = current_task_index
            /\ current_status' = current_status
            /\ is_complete' = is_complete
            /\ has_error'
            /\ error_message' \in TaskFailedMessages(last_event'.name)]_vars
    /\ [][(has_error /\ last_event'.kind \in StageKinds) =>
            LET info == _get_task_info(last_event'.name)
                completed_kind == last_event'.kind = "task_completed"
            IN  /\ current_task_index' = info[1] + (IF completed_kind THEN 1 ELSE 0)
                /\ current_status' =
                     (IF completed_kind THEN <<"C","o","m","p","l","e","t","e","d",":"," ">> ELSE <<"S","t","a","r","t","i","n","g",":"," ">>)
                        \o info[2]
                /\ has_error'
                /\ error_message' = error_message]_vars

\* C18's case: the opening failed, and the stage-started notification of a
\* later task was delivered after it.
C18_Witness ==
    /\ has_error
    /\ error_message = <<"T","a","s","k"," ","'","p","r","o","p","o","s","e","_","o","p","e","n","i","n","g","'"," ","f","a","i","l","e","d",":"," ","t","i","m","e","o","u","t">>
    /\ last_event = [kind |-> "task_started", name |-> TASK_INFO[4].key]
    /\ current_task_index = 3
    /\ current_status = <<"S","t","a","r","t","i","n","g",":"," ","P","r","o","p","o","s","i","t","i","o","n"," ","r","e","b","u","t","t","a","l">>

\* the positions in TASK_INFO of the entries a name matches: the key is
\* part of the normalised name, or the normalised name part of the key
MatchingEntries(name) ==
    {i \in 1..Len(TASK_INFO) :
        \/ contains(TASK_INFO[i].key, NormalizedName[name])
        \/ contains(NormalizedName[name], TASK_INFO[i].key)}

\* the one that comes first in registry order
LowestEntry(name) ==
    CHOOSE i \in MatchingEntries(name) : \A j \in MatchingEntries(name) : i <= j

\* C20: each registry key, in any letter case and with spaces or hyphens for
\* its underscores, resolves to the index and description of its own entry,
\* and a name matching several keys resolves to the entry with the lowest
\* index: the handlers store that entry's values.
C20_FirstMatchInRegistryOrder ==
    /\ \A i \in 1..Len(TASK_INFO) : \A name \in KeyVariants(TASK_INFO[i].key) :
         /\ _get_task_info(name) = <<TASK_INFO[i].index, TASK_INFO[i].desc>>
         /\ (last_event.kind = "task_started" /\ last_event.name = name)
              => /\ current_task_index = i - 1
                 /\ current_status = <<"S","t","a","r","t","i","n","g",":"," ">> \o TASK_INFO[i].desc
    /\ (last_event.kind \in StageKinds /\ MatchingEntries(last_event.name) # {})
         => LET entry == TASK_INFO[LowestEntry(last_event.name)]
                completed_kind == last_event.kind = "task_completed"
            IN  /\ current_task_index =
                     entry.index + (IF completed_kind THEN 1 ELSE 0)
                /\ current_status =
                     (IF completed_kind THEN <<"C","o","m","p","l","e","t","e","d",":"," ">> ELSE <<"S","t","a","r","t","i","n","g",":"," ">>)
                        \o entry.desc

\* C20's case: "rebuttal" is part of two keys and the stage-started
\* notification carrying it stored the entry of the first, and
\* "OPPOSE-REBUTTAL" resolves to the entry of oppose_rebuttal.
C20_Witness ==
    /\ last_event = [kind |-> "task_started", name |-> <<"r","e","b","u","t","t","a","l">>]
    /\ Cardinality(MatchingEntries(<<"r","e","b","u","t","t","a","l">>)) = 2
    /\ current_task_index = 3
    /\ _get_task_info(<<"O","P","P","O","S","E","-","R","E","B","U","T","T","A","L">>) = <<4, <<"O","p","p","o","s","i","t","i","o","n"," ","r","e","b","u","t","t","a","l">>>>

(***************************************************************************)
(* Properties of run_debate_with_progress (SpecRun)                        *)
(***************************************************************************)
\* the caller's thread is in its polling loop
InPollingLoop == observer_pc \in {"while", "get_state", "get_state_error"}

\* C16: when kickoff() hangs, so that the worker thread never ends, the
\* caller still comes to read the tracker's final state and returns.
C16_HungPipelineCannotWedge ==
    [](worker_pc = "hung" => <>(observer_pc = "returned"))

\* the record of this run's tracker
TrackerState ==
    [current_task_index |-> current_task_index, current_status |-> current_status,
     is_complete |-> is_complete, has_error |-> has_error,
     error_message |-> error_message]

\* the crew of the next request has just emitted a notification
LaterEmitted == later_step' # later_step

C19_LoopEndsWhenWorkerEnds ==
    /\ [](worker_pc = "finished" => crew_done)
    /\ [](worker_pc = "finished" => <>(~InPollingLoop))
    /\ []((observer_pc = "returned" /\ raised # "None") => run_result = "error")
    /\ []((observer_pc = "returned" /\ raised = "None")
            => run_result = (IF has_error THEN "warnings" ELSE "success"))

\* C19's case: register_handlers() or kickoff() raised, the worker thread
\* has ended and the caller has left its loop and returned.
C19_Witness ==
    /\ raised # "None"
    /\ worker_pc = "finished"
    /\ observer_pc = "returned"
    /\ run_result = "error"
====
